---- MODULE Spec2Model ----
(***************************************************************************)
(* The loop engine of ralph: loop() (unnamed/part_017), its two earlier    *)
(* versions in agents/core.ts (loop and runLoop), and specLoop()           *)
(* (second file of unnamed/part_013), together with the version-control    *)
(* helpers they call.  One loop instance is a sequential process; its      *)
(* awaits are the steps below.  The agent and the supervisor are external  *)
(* and non-deterministic.                                                  *)
(***************************************************************************)
EXTENDS Integers, Sequences, FiniteSets, TLC

\* ------------------------------------------------------------------ bounds
\* config.maxIterations (the source's default is 400)
MaxIterations == 3
\* the largest number of commits one agent or supervisor run makes
MaxAgentCommits == 1
\* the largest number of unchecked items in the task file
MaxTodos == 1
\* the largest spec number in the spec directory
MaxSpecs == 2
\* config.pushEvery (the source's default is 4)
PushEvery == 2
\* the longest spec file content, in tokens
MaxLen == 3
\* the most operations applied to one spec file
MaxOps == 3
\* the largest spec number a directory shared by several workers holds
MaxNumber == 3
\* the longest event stream, in records
MaxRecords == 3
\* the longest model-cycling list, in candidates
MaxCandidates == 2
\* the most commits a repository holds before the loop starts
MaxHistory == 2
\* the most invocations of runPi in a row
MaxRuns == 3
\* the longest task file, in tokens
MaxDoc == 5
\* the most files in a listed spec directory
MaxFiles == 2

\* config.supervisor.every (0: no supervisor configured)
SupervisorChoices == {0, 1, 2}
\* commits that exist before the loop starts
StartCounts == {0, 1}

Variants == {"loop", "coreLoop", "runLoop", "specLoop"}
SpecStates == {"none", "plain", "wip"}
NoSpec == 0
RESUME_SUFFIX == "RESUME_SUFFIX"
BasePrompt == <<"prompt">>

VARIABLES
  \* configuration and command line
  variant, once, dryRun, continuous, supEvery, context, isGitRepo,
  \* the world: task store and version control
  storeExists, taskFile, specDir, git, pushed,
  \* the loop's locals
  pc, iteration, commits, startCommitCount, state, action, prompt,
  exitCode, outcome,
  \* history of the run
  agentRuns, supRuns, decideCalls, pushFailures,
  \* the agent process: how many are in progress, how the last one ended
  running, agentResult,
  \* one spec file under markSpecAsWIP / unmarkSpecAsWIP / readSpecFile
  original, file, wrote, reported, trail,
  \* a spec directory shared by several workers
  shared, wpc, wsnap, highest,
  \* one action's run options on their way to the agent's command line
  call,
  \* the chunk accumulator of the agent's event stream
  feed,
  \* the model selection for one set of run options
  resolver,
  \* two runs of the cadence arithmetic that start from different histories
  twin,
  \* one runPi: the agent process, the timeout timer and the awaiting caller
  race,
  \* a task file on its way through getUncheckedTodos into the state
  doc,
  \* a spec directory on its way through listSpecs into the state
  listing

config == <<variant, once, dryRun, continuous, supEvery, context, isGitRepo>>
world == <<storeExists, taskFile, specDir, git, pushed>>
locals == <<pc, iteration, commits, startCommitCount, state, action, prompt, exitCode, outcome>>
history == <<agentRuns, supRuns, decideCalls, pushFailures>>
session == <<running, agentResult>>
markerVars == <<original, file, wrote, reported, trail>>
dirVars == <<shared, wpc, wsnap, highest>>
moreVars == <<race, doc, listing>>
extraVars == <<call, feed, resolver, twin, moreVars>>
otherVars == <<config, world, locals, history, session, markerVars, dirVars, call, feed, resolver, twin>>
library == <<markerVars, dirVars, extraVars>>
loopVars == <<config, world, locals, history, session>>
vars == <<config, world, locals, history, session, library>>

IsSpec == variant = "specLoop"

\* ------------------------------------------------------------ pure helpers

\* listSpecs: the spec files present, by number (ascending by construction)
listSpecs(dir) == {n \in 1..MaxSpecs : dir[n] # "none"}

\* specs.filter((s) => !s.isWIP)
availableSpecs(dir) == {n \in listSpecs(dir) : dir[n] # "wip"}

wipSpecs(dir) == {n \in listSpecs(dir) : dir[n] = "wip"}

\* availableSpecs[0] ?? null
nextSpec(dir) ==
  IF availableSpecs(dir) = {} THEN NoSpec
  ELSE CHOOSE n \in availableSpecs(dir) : \A m \in availableSpecs(dir) : n <= m

\* a claim step that marks every spec file of the directory
markEverySpecAsWIP(dir, n) ==
  [m \in 1..MaxSpecs |-> IF dir[m] = "none" THEN "none" ELSE "wip"]

\* markSpecAsWIP on one file: a marked file is left alone
markSpecAsWIP(dir, n) ==
  IF dir[n] = "wip" THEN dir ELSE [dir EXCEPT ![n] = "wip"]

\* withResume(prompt, hasChanges)
withResume(p, hasChanges) ==
  IF hasChanges THEN p \o <<RESUME_SUFFIX>> ELSE p

\* recentCommit(): git log -1 fails (false) when there is no commit
recentCommit(g) == g.head > 0 /\ g.age = "fresh"

\* autoCommit: git add -A; git commit
autoCommit(g) == [g EXCEPT !.head = g.head + 1, !.dirty = FALSE,
                           !.staged = FALSE, !.age = "fresh"]

\* an ensureCommit that looks at the working tree before the last commit's age
ensureCommitDirtyFirst(g) ==
  IF g.dirty THEN autoCommit(g)
  ELSE g

\* ensureCommit(fallbackMessage): the value it returns
ensureCommitReturn(g) ==
  IF recentCommit(g) THEN TRUE
  ELSE IF g.dirty THEN TRUE
  ELSE FALSE

\* ensureCommit(fallbackMessage): the version-control state it leaves
ensureCommit(g) ==
  IF recentCommit(g) THEN g
  ELSE IF g.dirty THEN autoCommit(g)
  ELSE g

\* an off-by-one ceiling
ceilingReachedLate(iter, max) == iter > max + 1

\* iteration > maxIterations
ceilingReached(iter, max) == iter > max

\* a cadence test without the commits > 0 conjunct
shouldRunSupervisorAtZero(every, c) == every # 0 /\ c % every = 0

\* config.supervisor && commits > 0 && commits % config.supervisor.every === 0
shouldRunSupervisor(every, c) == every # 0 /\ c > 0 /\ c % every = 0

\* a push cadence without the commits > 0 conjunct
shouldPushAtZero(c, every) == c % every = 0

\* commits > 0 && commits % pushEvery === 0
shouldPush(c, every) == c > 0 /\ c % every = 0

\* a guard that counts WIP-marked specs as produced work
guardFiresOnEmptyDir(cont, dir) == cont /\ listSpecs(dir) = {}

\* a guard that does not look at the continuous flag
guardFiresAlways(cont, dir) == availableSpecs(dir) = {}

\* the continuous-mode guard of specLoop's research case
guardFires(cont, dir) == cont /\ availableSpecs(dir) = {}

\* updatedTodos.length === 0 && action._type === "work"
allTasksComplete(updatedTodos, actionType) ==
  updatedTodos = 0 /\ actionType = "work"

\* a completion test without the !continuous conjunct
allSpecsImplementedAnyMode(cont, dir, actionType) ==
  /\ availableSpecs(dir) = {}
  /\ wipSpecs(dir) = {}
  /\ actionType = "implement"

\* a completion test that does not look at the WIP-marked specs
allSpecsImplementedIgnoringWip(cont, dir, actionType) ==
  /\ ~cont
  /\ availableSpecs(dir) = {}
  /\ actionType = "implement"

\* !continuous && no available spec && no WIP spec && action._type === "implement"
allSpecsImplemented(cont, dir, actionType) ==
  /\ ~cont
  /\ availableSpecs(dir) = {}
  /\ wipSpecs(dir) = {}
  /\ actionType = "implement"

ActionTypes == IF IsSpec THEN {"research", "implement", "halt"}
               ELSE {"work", "generate", "halt"}

IsGenerate(a) == a \in {"generate", "research"}
IsWork(a) == a \in {"work", "implement"}

EmptyDir == [n \in 1..MaxSpecs |-> "none"]

\* how an agent process ends: it exits by itself with status 0 or with an error
\* status, or the timeout kills it
AgentResults == {"stop", "error", "timeout"}

NoState == [iteration |-> 0, commits |-> 0, hasItems |-> FALSE, next |-> NoSpec,
            context |-> "null", hasUncommittedChanges |-> FALSE]

\* ------------------------------------------------- spec file contents
\* A file content is a sequence of tokens: "M" is WIP_MARKER itself, "m" any
\* other text WIP_PATTERN matches (the marker with other white space inside),
\* "nl" a white-space character, "a" any other character.
Alphabet == {"M", "m", "nl", "a"}
WIP_MARKER == <<"M">>
Unread == <<"unread">>

RECURSIVE SeqsUpTo(_)
SeqsUpTo(n) ==
  IF n = 0 THEN {<< >>}
  ELSE SeqsUpTo(n - 1) \cup
       {Append(c, t) : c \in {d \in SeqsUpTo(n - 1) : Len(d) = n - 1}, t \in Alphabet}

Contents == SeqsUpTo(MaxLen)

\* WIP_PATTERN.test(content): /^<!--\s*WIP:\s*IN PROGRESS\s*-->/
WIP_PATTERN(c) == Len(c) > 0 /\ c[1] \in {"M", "m"}

\* content.replace(WIP_PATTERN, ""): the first match, which is at the start
stripMarker(c) == IF WIP_PATTERN(c) THEN Tail(c) ELSE c

RECURSIVE trimStart(_)
trimStart(c) ==
  IF Len(c) > 0 /\ c[1] = "nl" THEN trimStart(Tail(c)) ELSE c

RECURSIVE trimEnd(_)
trimEnd(c) ==
  IF Len(c) > 0 /\ c[Len(c)] = "nl" THEN trimEnd(SubSeq(c, 1, Len(c) - 1)) ELSE c

\* String.prototype.trim
trim(c) == trimEnd(trimStart(c))

\* a mark without the "don't double-mark" test
markedContentAlways(c) == WIP_MARKER \o <<"nl", "nl">> \o c

\* the file content markSpecAsWIP leaves
markedContent(c) ==
  IF WIP_PATTERN(c) THEN c ELSE WIP_MARKER \o <<"nl", "nl">> \o c

\* an unmark without the trim and the final newline
unmarkedContentRaw(c) ==
  IF ~WIP_PATTERN(c) THEN c ELSE stripMarker(c)

\* the file content unmarkSpecAsWIP leaves
unmarkedContent(c) ==
  IF ~WIP_PATTERN(c) THEN c ELSE trim(stripMarker(c)) \o <<"nl">>

\* readSpecFile: isWIP and the content it reports
isWIP(raw) == WIP_PATTERN(raw)
specContent(raw) == IF isWIP(raw) THEN trim(stripMarker(raw)) ELSE raw

\* the number of markers in a content
RECURSIVE markerCount(_)
markerCount(c) ==
  IF c = << >> THEN 0
  ELSE (IF c[1] \in {"M", "m"} THEN 1 ELSE 0) + markerCount(Tail(c))

MarkerIdle ==
  /\ original = << >>
  /\ file = << >>
  /\ wrote = FALSE
  /\ reported = Unread
  /\ trail = << >>

\* ------------------------------------- a spec directory and its workers
\* loop instances (or callers of createSpec/deleteSpec) on one directory
Workers == {1, 2}
\* the sanitized descriptions of createSpecFilename
Descs == {"a", "b"}
\* a file name <number>-<description>.md
FileNames == (1..MaxNumber) \X Descs
NoFile == <<0, "none">>

\* parseSpecNumber(filename)
parseSpecNumber(f) == f[1]

\* readdir: the files present
readdir(dir) == {f \in FileNames : dir[f] # "none"}

\* a next number that is the count of the files plus one
getNextSpecNumberByCount(dir) == Cardinality(readdir(dir)) + 1

\* getNextSpecNumber(specDir): Math.max(...numbers) + 1, or 1
getNextSpecNumber(dir) ==
  IF readdir(dir) = {} THEN 1
  ELSE (CHOOSE n \in 1..MaxNumber :
          /\ \E f \in readdir(dir) : parseSpecNumber(f) = n
          /\ \A f \in readdir(dir) : parseSpecNumber(f) <= n) + 1

\* specs.filter((s) => !s.isWIP) on the shared directory
available(dir) == {f \in readdir(dir) : dir[f] # "wip"}

\* availableSpecs[0] after the sort by number: a file of the lowest number
firstAvailable(dir) ==
  {f \in available(dir) : \A g \in available(dir) : parseSpecNumber(f) <= parseSpecNumber(g)}

\* the highest number among the files present (0: none)
maxNumber(dir) == getNextSpecNumber(dir) - 1

uniqueNumbers(dir) ==
  \A f, g \in readdir(dir) : parseSpecNumber(f) = parseSpecNumber(g) => f = g

DirIdle ==
  /\ shared = [f \in FileNames |-> "none"]
  /\ wpc = [w \in Workers |-> "idle"]
  /\ wsnap = [w \in Workers |-> NoFile]
  /\ highest = 0

\* ------------------------------------------------------- run options
\* the RunOptions that become arguments of the agent's command line
OptionNames == {"model", "provider", "models", "thinking", "tools"}
\* an option is not given, or has one of two values
OptionValues == {"unset", "x", "y"}
NoOptions == [o \in OptionNames |-> "unset"]

\* the options object the loop builds for runPi from action._options:
\* loop() passes { model, timeout }, runSpecAction spreads all of them
loopRunOptions(kind, options) ==
  IF kind = "specLoop" THEN options
  ELSE [o \in OptionNames |-> IF o = "model" THEN options[o] ELSE "unset"]

\* runPi: "Build args from options": one flag for each option that is set
piArgs(options) == [o \in OptionNames |-> options[o]]

OptionsIdle == call = [stage |-> "idle", kind |-> "loop", options |-> NoOptions,
                       runOptions |-> NoOptions, args |-> NoOptions]

\* ------------------------------------------------- the event stream
\* a record is one JSON object on a line: "{", its id, "}"
RecordIds == {"1", "2"}
recordText(id) == <<"o", id, "c">>

RECURSIVE SeqsOf(_, _)
SeqsOf(S, n) ==
  IF n = 0 THEN {<< >>}
  ELSE SeqsOf(S, n - 1) \cup
       {Append(c, t) : c \in {d \in SeqsOf(S, n - 1) : Len(d) = n - 1}, t \in S}

\* the stream's text: every record followed by a newline
RECURSIVE jsonl(_)
jsonl(ids) ==
  IF ids = << >> THEN << >>
  ELSE recordText(Head(ids)) \o <<"nl">> \o jsonl(Tail(ids))

RECURSIVE skipNewlines(_, _)
skipNewlines(b, pos) ==
  IF pos <= Len(b) /\ b[pos] = "nl" THEN skipNewlines(b, pos + 1) ELSE pos

\* "Parses as many complete values as possible and reports progress":
\* the values from position pos on, and the characters consumed
RECURSIVE parseFrom(_, _)
parseFrom(b, pos) ==
  LET p == skipNewlines(b, pos) IN
  IF p + 2 <= Len(b) /\ b[p] = "o" /\ b[p + 1] \in RecordIds /\ b[p + 2] = "c"
  THEN LET r == parseFrom(b, p + 3) IN
       [values |-> <<SubSeq(b, p, p + 2)>> \o r.values, read |-> r.read]
  ELSE [values |-> << >>, read |-> pos - 1]

\* Bun.JSONL.parseChunk: `read` ends at the last complete value ("read; // 17")
\* or after the newline that ends it ("read; // 24"), as the examples show
parseChunk(b, pastNewline) ==
  LET r == parseFrom(b, 1) IN
  [values |-> r.values,
   read |-> IF pastNewline /\ r.values # << >> /\ r.read < Len(b) /\ b[r.read + 1] = "nl"
            THEN r.read + 1 ELSE r.read]

\* an accumulator that never drops what it has consumed
sliceNothing(b, n) == b

\* buffer.slice(result.read)
slice(b, n) == SubSeq(b, n + 1, Len(b))

StreamIdle == feed = [records |-> << >>, input |-> << >>, buffer |-> << >>,
                      emitted |-> << >>, chunks |-> 0]

\* --------------------------------------------------- model cycling
ModelNames == {"a", "b"}
Intensities == {"low", "high"}
\* a token of the cycling list: model, or model ":" intensity
Tokens == {<<m>> : m \in ModelNames} \cup
          {<<m, ":", i>> : m \in ModelNames, i \in Intensities}
NoSelection == [model |-> "none", intensity |-> "none"]

\* one token of the list, as a candidate
parseToken(tok) ==
  [model |-> tok[1], intensity |-> IF Len(tok) = 3 THEN tok[3] ELSE "none"]

\* the first candidate of the list that has credentials, if there is one
RECURSIVE firstCredentialed(_, _)
firstCredentialed(list, creds) ==
  IF list = << >> THEN NoSelection
  ELSE IF parseToken(Head(list)).model \in creds THEN parseToken(Head(list))
  ELSE firstCredentialed(Tail(list), creds)

\* a selection that does not look at the credentials
selectFirstListed(list, creds) == parseToken(Head(list))

\* walk the list in order; fall back to the first candidate
selectFromList(list, creds) ==
  IF firstCredentialed(list, creds) # NoSelection
  THEN firstCredentialed(list, creds)
  ELSE parseToken(Head(list))

\* the resolver: an explicit model wins, then the cycling list, else the
\* agent runtime's own default
resolveRunOptions(model, list, creds) ==
  IF model # "none" THEN [model |-> model, intensity |-> "none"]
  ELSE IF list # << >> THEN selectFromList(list, creds)
  ELSE NoSelection

ResolverIdle == resolver = [stage |-> "idle", model |-> "none", models |-> << >>,
                            creds |-> {}, selected |-> NoSelection]

\* ------------------------------------------------ the commit baseline
\* a count that forgets the baseline
commitsTotal(currentCount, start) == currentCount

\* commits = currentCount - startCommitCount
commitsSince(currentCount, start) == currentCount - start

\* what one agent run does to a repository: k commits, a working tree left
\* dirty or clean, and the age of the last commit when ensureCommit looks
agentEffect(g, k, d, a) ==
  [head |-> g.head + k, dirty |-> d, staged |-> (k = 0 /\ d /\ g.staged), age |-> a]

TwinIdle == twin = [pc |-> "idle", every |-> 0, iteration |-> 0, recounted |-> FALSE,
                    git |-> << >>, start |-> << >>, read |-> << >>,
                    commits |-> << >>, sup |-> << >>, push |-> << >>]

\* ------------------------------------------------ runPi and its timer
\* the invocations of runPi, in the order the loop makes them
Runs == 1..MaxRuns

RaceIdle == race = [pc |-> "idle", run |-> 0, proc |-> "none",
                    timer |-> [i \in Runs |-> "unset"], kills |-> [i \in Runs |-> 0],
                    result |-> [i \in Runs |-> "none"]]

\* --------------------------------------------------- the task file
\* A task file is a sequence of tokens: "sp" a blank or tab, "nl" a newline,
\* "b" a bullet (-, * or +), "o" the empty box "[ ]", "x" the checked box
\* "[x]", "a" any other character.
DocAlphabet == {"sp", "nl", "b", "o", "x", "a"}
Docs == SeqsOf(DocAlphabet, MaxDoc)
NoTodo == <<"null">>

\* \s
isSpace(t) == t \in {"sp", "nl"}

\* \s* from position p on: the first position that holds no white space
RECURSIVE skipSpace(_, _)
skipSpace(c, p) ==
  IF p <= Len(c) /\ isSpace(c[p]) THEN skipSpace(c, p + 1) ELSE p

\* (.*)$ from position p on: the end of the line
RECURSIVE lineEnd(_, _)
lineEnd(c, p) ==
  IF p <= Len(c) /\ c[p] # "nl" THEN lineEnd(c, p + 1) ELSE p

\* ^ with the m flag
lineStart(c, p) == p = 1 \/ c[p - 1] = "nl"

\* String.prototype.trim
RECURSIVE trimLabel(_)
trimLabel(c) ==
  IF c = << >> THEN c
  ELSE IF isSpace(Head(c)) THEN trimLabel(Tail(c))
  ELSE IF isSpace(c[Len(c)]) THEN trimLabel(SubSeq(c, 1, Len(c) - 1))
  ELSE c

\* /^\s*[-*+]\s*\[ \]/ tried at position p
boxAt(c, p) ==
  LET bullet == skipSpace(c, p)
      box == skipSpace(c, bullet + 1)
  IN IF /\ lineStart(c, p)
        /\ bullet <= Len(c) /\ c[bullet] = "b"
        /\ box <= Len(c) /\ c[box] = "o"
     THEN box ELSE 0

\* /^\s*[-*+]\s*\[ \]\s+(.*)$/ tried at position p: the capture and the
\* position where the match ends
todoAt(c, p) ==
  LET box == boxAt(c, p)
      label == skipSpace(c, box + 1)
      end == lineEnd(c, label)
  IN IF box # 0 /\ box + 1 <= Len(c) /\ isSpace(c[box + 1])
     THEN [ok |-> TRUE, capture |-> SubSeq(c, label, end - 1), end |-> end]
     ELSE [ok |-> FALSE, capture |-> << >>, end |-> p]

\* content.matchAll(...) from position p on, each capture trimmed
RECURSIVE todosFrom(_, _)
todosFrom(c, p) ==
  IF p > Len(c) THEN << >>
  ELSE IF todoAt(c, p).ok
       THEN <<trimLabel(todoAt(c, p).capture)>> \o
            todosFrom(c, IF todoAt(c, p).end > p THEN todoAt(c, p).end ELSE p + 1)
       ELSE todosFrom(c, p + 1)

\* getUncheckedTodos(content)
getUncheckedTodos(c) == todosFrom(c, 1)

\* core.ts hasUncheckedTodos(content): the pattern without the label part
hasUncheckedTodos(c) == \E p \in 1..Len(c) : boxAt(c, p) # 0

\* core.ts getNextTodo(content): the first match, or null
getNextTodo(c) ==
  IF getUncheckedTodos(c) = << >> THEN NoTodo ELSE getUncheckedTodos(c)[1]

DocIdle == doc = [stage |-> "idle", kind |-> "loop", content |-> << >>,
                  todos |-> << >>, hasTodos |-> FALSE, nextTodo |-> NoTodo]

\* ------------------------------------------- a listed spec directory
\* A file name has a prefix of digits (none: no numeric prefix followed by
\* "-"), a description and an extension; a spec's content is one of Contents.
Prefixes == {<< >>, <<1>>} \cup {<<0, 0, n>> : n \in 1..MaxNumber}
Extensions == {"md", "txt"}
RawContents == {<<"a">>, <<"M", "a">>, <<"m", "a">>, <<"nl", "M">>}
Files == [prefix : Prefixes, desc : Descs, ext : Extensions, raw : RawContents]
NoSpecFile == [prefix |-> << >>, desc |-> "none", ext |-> "none", raw |-> << >>]
NoNumber == 0 - 1

fileName(f) == <<f.prefix, f.desc, f.ext>>

\* parseInt(match[1], 10) on the digits of the prefix
RECURSIVE digitsValue(_)
digitsValue(d) ==
  IF d = << >> THEN 0 ELSE 10 * digitsValue(SubSeq(d, 1, Len(d) - 1)) + d[Len(d)]

\* parseSpecNumber(filename): filename.match(/^(\d+)-/), or null
parseSpecNumberOfName(f) == IF f.prefix = << >> THEN NoNumber ELSE digitsValue(f.prefix)

\* formatSpecNumber(n): n.toString().padStart(3, "0"), for n below 10
formatSpecNumber(n) == <<0, 0, n>>

\* readSpecFile: null for a file that is not .md or has no number
isSpecFile(f) == f.ext = "md" /\ parseSpecNumberOfName(f) # NoNumber

\* for (const file of files) { ... if (spec) specs.push(spec) }
RECURSIVE readSpecFiles(_)
readSpecFiles(files) ==
  IF files = << >> THEN << >>
  ELSE (IF isSpecFile(Head(files)) THEN <<Head(files)>> ELSE << >>) \o
       readSpecFiles(Tail(files))

\* one step of the stable sort: f goes after the specs whose number is not higher
RECURSIVE insertByNumber(_, _)
insertByNumber(sorted, f) ==
  IF sorted = << >> THEN <<f>>
  ELSE IF parseSpecNumberOfName(Head(sorted)) <= parseSpecNumberOfName(f)
       THEN <<Head(sorted)>> \o insertByNumber(Tail(sorted), f)
       ELSE <<f>> \o sorted

\* a listing left in the order readdir gave
sortNothing(specs) == specs

\* specs.sort((a, b) => a.number - b.number)
RECURSIVE sortByNumber(_)
sortByNumber(specs) ==
  IF specs = << >> THEN << >>
  ELSE insertByNumber(sortByNumber(SubSeq(specs, 1, Len(specs) - 1)), specs[Len(specs)])

\* listSpecs(specDir): [] when readdir throws
listSpecsSorted(exists, files) ==
  IF exists THEN sortByNumber(readSpecFiles(files)) ELSE << >>

\* specs.filter((s) => !s.isWIP)
RECURSIVE filterAvailable(_)
filterAvailable(specs) ==
  IF specs = << >> THEN << >>
  ELSE (IF isWIP(Head(specs).raw) THEN << >> ELSE <<Head(specs)>>) \o
       filterAvailable(Tail(specs))

\* a next number that is the number of numbered files plus one
nextNumberByCount(exists, files) ==
  IF exists
  THEN Cardinality({i \in 1..Len(files) : parseSpecNumberOfName(files[i]) # NoNumber}) + 1
  ELSE 1

\* getNextSpecNumber(specDir), on the names readdir returns: every file with
\* a numeric prefix counts, whatever its extension
nextNumberOfFiles(exists, files) ==
  LET numbers == {parseSpecNumberOfName(files[i]) : i \in 1..Len(files)} \ {NoNumber}
  IN IF exists /\ numbers # {}
     THEN (CHOOSE n \in numbers : \A m \in numbers : m <= n) + 1
     ELSE 1

ListingIdle == listing = [stage |-> "idle", exists |-> FALSE, files |-> << >>,
                          specs |-> << >>, availableSpecs |-> << >>,
                          hasAvailableSpecs |-> FALSE, nextSpec |-> NoSpecFile,
                          number |-> 0, created |-> NoSpecFile]

MoreIdle == RaceIdle /\ DocIdle /\ ListingIdle

ExtraIdle == OptionsIdle /\ StreamIdle /\ ResolverIdle /\ TwinIdle /\ MoreIdle

LibraryIdle == MarkerIdle /\ DirIdle /\ ExtraIdle

\* ------------------------------------------------------------------- Init

Init ==
  /\ variant \in Variants
  /\ once \in BOOLEAN
  /\ dryRun \in BOOLEAN
  /\ continuous \in (IF variant = "specLoop" THEN BOOLEAN ELSE {FALSE})
  /\ supEvery \in SupervisorChoices
  /\ context \in {"null", "ctx"}
  /\ isGitRepo \in BOOLEAN
  /\ storeExists \in BOOLEAN
  /\ taskFile \in (IF variant # "specLoop" /\ storeExists THEN 0..MaxTodos ELSE {0})
  /\ specDir \in (IF variant = "specLoop" /\ storeExists
                  THEN [1..MaxSpecs -> SpecStates] ELSE {EmptyDir})
  /\ git \in [head : (IF isGitRepo THEN StartCounts ELSE {0}),
              dirty : (IF isGitRepo THEN BOOLEAN ELSE {FALSE}),
              staged : {FALSE},
              age : {"fresh", "old"}]
  /\ (git.head = 0 => git.age = "old")
  /\ pushed = FALSE
  /\ pc = "start"
  /\ iteration = 0
  /\ commits = 0
  /\ startCommitCount = 0
  /\ state = NoState
  /\ action = "none"
  /\ prompt = << >>
  /\ exitCode = -1
  /\ outcome = "running"
  /\ agentRuns = 0
  /\ supRuns = 0
  /\ decideCalls = 0
  /\ pushFailures = 0
  /\ running = 0
  /\ agentResult = "none"
  /\ LibraryIdle

\* process.exit(code)
Exit(code, why) ==
  /\ pc' = "done"
  /\ exitCode' = code
  /\ outcome' = why

\* ---------------------------------------------------------------- actions

\* a start that creates the task store and reads the commit count before it
\* validates the repository
StartEnsuresFirst ==
  /\ pc = "start"
  /\ storeExists' = TRUE
  /\ startCommitCount' = git.head
  /\ \E d \in {git.dirty, ~storeExists /\ ~IsSpec} :
       git' = [git EXCEPT !.dirty = git.dirty \/ d]
  /\ IF ~isGitRepo
     THEN Exit(1, "notgit")
     ELSE /\ pc' = "top"
          /\ UNCHANGED <<exitCode, outcome>>
  /\ UNCHANGED <<config, library, session, taskFile, specDir, pushed, iteration, commits,
                 state, action, prompt, history>>

\* loop()/specLoop() up to the while: validation, ensureFile/ensureSpecDir,
\* the baseline commit count
Start ==
  /\ pc = "start"
  /\ IF ~isGitRepo
     THEN /\ Exit(1, "notgit")
          /\ UNCHANGED <<storeExists, startCommitCount, git>>
     ELSE /\ storeExists' = TRUE
          \* a task file that ensureFile creates is a new untracked file, unless
          \* it is ignored; an empty directory is invisible to git status
          /\ \E d \in {git.dirty, ~storeExists /\ ~IsSpec} :
               git' = [git EXCEPT !.dirty = git.dirty \/ d]
          /\ startCommitCount' = git.head
          /\ pc' = "top"
          /\ UNCHANGED <<exitCode, outcome>>
  /\ UNCHANGED <<config, library, session, taskFile, specDir, pushed, iteration, commits,
                 state, action, prompt, history>>

\* a while (iteration < maxIterations) that is left without process.exit
IterateNoExit ==
  /\ pc = "top"
  /\ iteration < MaxIterations
  /\ iteration' = iteration + 1
  /\ state' = [iteration |-> iteration',
               commits |-> commits,
               hasItems |-> IF IsSpec THEN availableSpecs(specDir) # {}
                            ELSE taskFile > 0,
               next |-> IF IsSpec THEN nextSpec(specDir)
                        ELSE (IF taskFile > 0 THEN 1 ELSE NoSpec),
               context |-> context,
               hasUncommittedChanges |-> git.dirty]
  /\ pc' = "built"
  /\ pushed' = FALSE
  /\ UNCHANGED <<config, library, session, storeExists, taskFile, specDir, git, commits,
                 startCommitCount, action, prompt, exitCode, outcome, history>>

\* top of the while: iteration++, the ceiling, the state snapshot
Iterate ==
  /\ pc = "top"
  /\ iteration' = iteration + 1
  /\ IF ceilingReached(iteration', MaxIterations)
     THEN /\ Exit(0, "ceiling")
          /\ UNCHANGED state
     ELSE /\ state' = [iteration |-> iteration',
                       commits |-> commits,
                       hasItems |-> IF IsSpec THEN availableSpecs(specDir) # {}
                                    ELSE taskFile > 0,
                       next |-> IF IsSpec THEN nextSpec(specDir)
                                ELSE (IF taskFile > 0 THEN 1 ELSE NoSpec),
                       context |-> context,
                       hasUncommittedChanges |-> git.dirty]
          /\ pc' = "built"
          /\ UNCHANGED <<exitCode, outcome>>
  /\ pushed' = FALSE
  /\ UNCHANGED <<config, library, session, storeExists, taskFile, specDir, git, commits,
                 startCommitCount, action, prompt, history>>

\* the supervisor pass: the dry-run exit, or config.supervisor.run(state), which
\* is external: it may edit the task store, commit, and leave changes behind
Supervise ==
  /\ pc = "built"
  /\ shouldRunSupervisor(supEvery, commits)
  /\ IF dryRun
     THEN /\ Exit(0, "dryrun")
          /\ UNCHANGED <<taskFile, specDir, git, supRuns>>
     ELSE /\ \E k \in 0..MaxAgentCommits, d \in BOOLEAN, a \in {"fresh", "old"} :
               /\ (k = 0 /\ git.age = "old" => a = "old")
               /\ (git.head + k = 0 => a = "old")
               /\ git' = [head |-> git.head + k, dirty |-> d, staged |-> FALSE, age |-> a]
          /\ taskFile' \in (IF IsSpec THEN {taskFile} ELSE 0..MaxTodos)
          /\ specDir' \in (IF IsSpec THEN [1..MaxSpecs -> SpecStates] ELSE {specDir})
          /\ supRuns' = supRuns + 1
          /\ pc' = "supEnsure"
          /\ UNCHANGED <<exitCode, outcome>>
  /\ UNCHANGED <<config, library, session, storeExists, pushed, iteration, commits, startCommitCount,
                 state, action, prompt, agentRuns, decideCalls, pushFailures>>

\* after the supervisor: ensureCommit("chore: supervisor"), the recount, continue
SupervisorEnsure ==
  /\ pc = "supEnsure"
  /\ git' = ensureCommit(git)
  /\ commits' = git'.head - startCommitCount
  /\ pc' = "top"
  /\ state' = NoState
  /\ UNCHANGED <<config, library, session, storeExists, taskFile, specDir, pushed, iteration,
                 startCommitCount, action, prompt, exitCode, outcome, history>>

\* const action = config.run(state): any decision function
Decide ==
  /\ pc = "built"
  /\ ~shouldRunSupervisor(supEvery, commits)
  /\ action' \in ActionTypes
  /\ decideCalls' = decideCalls + 1
  /\ pc' = "dispatch"
  /\ UNCHANGED <<config, library, session, world, iteration, commits, startCommitCount, state, prompt,
                 exitCode, outcome, agentRuns, supRuns,
                 pushFailures>>

\* a halt case without its process.exit, falling through to the next case
HaltFallsThrough ==
  /\ pc = "dispatch"
  /\ action = "halt"
  /\ pc' = "agent"
  /\ UNCHANGED <<config, library, session, world, iteration, commits, startCommitCount, state, action,
                 prompt, exitCode, outcome, history>>

\* case "halt": process.exit(0)
Halt ==
  /\ pc = "dispatch"
  /\ action = "halt"
  /\ Exit(0, "halt")
  /\ UNCHANGED <<config, library, session, world, iteration, commits, startCommitCount, state, action,
                 prompt, history>>

\* case "work" / case "generate" of the checklist loops, up to the spawn of the
\* agent: the prompt (runLoop passes action.prompt as it is), then the dry-run exit
DispatchLoop ==
  /\ pc = "dispatch"
  /\ ~IsSpec
  /\ action # "halt"
  /\ prompt' = IF variant = "runLoop" THEN BasePrompt
               ELSE withResume(BasePrompt, state.hasUncommittedChanges)
  /\ IF dryRun
     THEN /\ Exit(0, "dryrun")
          /\ UNCHANGED running
     ELSE /\ running' = running + 1
          /\ pc' = "agent"
          /\ UNCHANGED <<exitCode, outcome>>
  /\ UNCHANGED agentResult
  /\ UNCHANGED <<config, library, world, iteration, commits, startCommitCount, state, action,
                 history>>

\* a runSpecAction that looks at the working tree again after its own WIP mark
RunSpecActionRecheck ==
  /\ pc = "dispatch"
  /\ IsSpec
  /\ action # "halt"
  /\ IF action = "implement" /\ state.next # NoSpec
     THEN /\ specDir' = markSpecAsWIP(specDir, state.next)
          /\ git' = [git EXCEPT !.dirty = TRUE, !.staged = TRUE]
     ELSE UNCHANGED <<specDir, git>>
  /\ prompt' = withResume(BasePrompt, git'.dirty)
  /\ IF dryRun
     THEN /\ Exit(0, "dryrun")
          /\ UNCHANGED running
     ELSE /\ running' = running + 1
          /\ pc' = "agent"
          /\ UNCHANGED <<exitCode, outcome>>
  /\ UNCHANGED agentResult
  /\ UNCHANGED <<config, library, storeExists, taskFile, pushed, iteration, commits,
                 startCommitCount, state, action, history>>

\* runSpecAction up to the spawn of the agent: the WIP mark and git add of
\* state.nextSpec for an implement action, the prompt, then the dry-run exit
RunSpecAction ==
  /\ pc = "dispatch"
  /\ IsSpec
  /\ action # "halt"
  /\ IF action = "implement" /\ state.next # NoSpec
     THEN /\ specDir' = markSpecAsWIP(specDir, state.next)
          /\ git' = [git EXCEPT !.dirty = TRUE, !.staged = TRUE]
     ELSE UNCHANGED <<specDir, git>>
  /\ prompt' = withResume(BasePrompt, state.hasUncommittedChanges)
  /\ IF dryRun
     THEN /\ Exit(0, "dryrun")
          /\ UNCHANGED running
     ELSE /\ running' = running + 1
          /\ pc' = "agent"
          /\ UNCHANGED <<exitCode, outcome>>
  /\ UNCHANGED agentResult
  /\ UNCHANGED <<config, library, storeExists, taskFile, pushed, iteration, commits,
                 startCommitCount, state, action, history>>

\* a loop in which a failed or killed agent ends the iteration's case at once,
\* without the ensureCommit that follows runPi
AgentRunFailureSkipsCommit ==
  /\ pc = "agent"
  /\ \E k \in 0..MaxAgentCommits, d \in BOOLEAN, a \in {"fresh", "old"} :
       /\ (k = 0 /\ git.age = "old" => a = "old")
       /\ (git.head + k = 0 => a = "old")
       /\ git' = [head |-> git.head + k, dirty |-> d,
                  staged |-> (k = 0 /\ d /\ git.staged), age |-> a]
  /\ taskFile' \in (IF IsSpec THEN {taskFile} ELSE 0..MaxTodos)
  /\ specDir' \in (IF IsSpec THEN [1..MaxSpecs -> SpecStates] ELSE {specDir})
  /\ agentResult' \in AgentResults
  /\ running' = running - 1
  /\ agentRuns' = agentRuns + 1
  /\ pc' = IF agentResult' = "stop" THEN "ensure" ELSE "recount"
  /\ UNCHANGED <<config, library, storeExists, pushed, iteration, commits, startCommitCount,
                 state, action, prompt, exitCode, outcome, supRuns, decideCalls,
                 pushFailures>>

\* a runPi that does not await proc.exited: the loop goes on while the agent runs
AgentRunDetached ==
  /\ pc = "agent"
  /\ agentRuns' = agentRuns + 1
  /\ pc' = "ensure"
  /\ UNCHANGED <<config, library, session, world, iteration, commits, startCommitCount,
                 state, action, prompt, exitCode, outcome, supRuns, decideCalls,
                 pushFailures>>

\* runPi: the agent runs until it exits or the timeout kills it.  It is external:
\* it may rewrite the task store, make commits, and leave uncommitted changes;
\* any time may pass, so its last commit may or may not be recent afterwards
AgentRun ==
  /\ pc = "agent"
  /\ \E k \in 0..MaxAgentCommits, d \in BOOLEAN, a \in {"fresh", "old"} :
       /\ (k = 0 /\ git.age = "old" => a = "old")
       /\ (git.head + k = 0 => a = "old")
       /\ git' = [head |-> git.head + k, dirty |-> d,
                  staged |-> (k = 0 /\ d /\ git.staged), age |-> a]
  /\ taskFile' \in (IF IsSpec THEN {taskFile} ELSE 0..MaxTodos)
  /\ specDir' \in (IF IsSpec THEN [1..MaxSpecs -> SpecStates] ELSE {specDir})
  /\ agentResult' \in AgentResults
  /\ running' = running - 1
  /\ agentRuns' = agentRuns + 1
  /\ pc' = "ensure"
  /\ UNCHANGED <<config, library, storeExists, pushed, iteration, commits, startCommitCount,
                 state, action, prompt, exitCode, outcome, supRuns, decideCalls,
                 pushFailures>>

\* await ensureCommit(...) after the agent; the core.ts loops exit after a
\* generate action here
EnsureCommit ==
  /\ pc = "ensure"
  /\ git' = ensureCommit(git)
  /\ IF variant \in {"coreLoop", "runLoop"} /\ action = "generate"
     THEN Exit(0, "generated")
     ELSE /\ pc' = IF IsSpec /\ action = "research" THEN "guard" ELSE "recount"
          /\ UNCHANGED <<exitCode, outcome>>
  /\ UNCHANGED <<config, library, session, storeExists, taskFile, specDir, pushed, iteration, commits,
                 startCommitCount, state, action, prompt, history>>

\* specLoop, case "research", after ensureCommit: the continuous-mode guard
ContinuousGuard ==
  /\ pc = "guard"
  /\ IF guardFires(continuous, specDir)
     THEN Exit(1, "guard")
     ELSE /\ pc' = "recount"
          /\ UNCHANGED <<exitCode, outcome>>
  /\ UNCHANGED <<config, library, session, world, iteration, commits, startCommitCount, state, action,
                 prompt, history>>

\* a push without the try/catch: a failed git push ends the process
ReconcilePushFatal ==
  /\ pc = "recount"
  /\ commits' = commitsSince(git.head, startCommitCount)
  /\ pushed' = shouldPush(commits', PushEvery)
  /\ \E failed \in (IF pushed' THEN BOOLEAN ELSE {FALSE}) :
       IF failed
       THEN /\ pushFailures' = pushFailures + 1
            /\ Exit(1, "pushfailed")
       ELSE /\ pc' = "checkDone"
            /\ UNCHANGED <<pushFailures, exitCode, outcome>>
  /\ UNCHANGED <<config, library, session, storeExists, taskFile, specDir, git, iteration,
                 startCommitCount, state, action, prompt, agentRuns, supRuns,
                 decideCalls>>

\* the recount and the periodic push; push() catches a failed git push
Reconcile ==
  /\ pc = "recount"
  /\ commits' = commitsSince(git.head, startCommitCount)
  /\ pushed' = shouldPush(commits', PushEvery)
  /\ \E failed \in (IF pushed' THEN BOOLEAN ELSE {FALSE}) :
       pushFailures' = pushFailures + (IF failed THEN 1 ELSE 0)
  /\ pc' = "checkDone"
  /\ UNCHANGED <<config, library, session, storeExists, taskFile, specDir, git, iteration,
                 startCommitCount, state, action, prompt, exitCode, outcome, agentRuns,
                 supRuns, decideCalls>>

\* a completion check on the snapshot taken at the start of the iteration
CheckDoneOnSnapshot ==
  /\ pc = "checkDone"
  /\ IF (IF IsSpec THEN allSpecsImplemented(continuous, specDir, action)
                   ELSE allTasksComplete(IF state.hasItems THEN 1 ELSE 0, action))
     THEN /\ Exit(0, "complete")
          /\ UNCHANGED <<state, action, prompt, agentResult>>
     ELSE IF once
     THEN /\ Exit(0, "once")
          /\ UNCHANGED <<state, action, prompt, agentResult>>
     ELSE /\ pc' = "top"
          /\ state' = NoState
          /\ action' = "none"
          /\ prompt' = << >>
          /\ agentResult' = "none"
          /\ UNCHANGED <<exitCode, outcome>>
  /\ UNCHANGED <<config, library, running, world, iteration, commits, startCommitCount, history>>

\* an end of iteration that does not test flags.once
CheckDoneWithoutOnce ==
  /\ pc = "checkDone"
  /\ IF (IF IsSpec THEN allSpecsImplemented(continuous, specDir, action)
                   ELSE allTasksComplete(taskFile, action))
     THEN /\ Exit(0, "complete")
          /\ UNCHANGED <<state, action, prompt, agentResult>>
     ELSE /\ pc' = "top"
          /\ state' = NoState
          /\ action' = "none"
          /\ prompt' = << >>
          /\ agentResult' = "none"
          /\ UNCHANGED <<exitCode, outcome>>
  /\ UNCHANGED <<config, library, running, world, iteration, commits, startCommitCount, history>>

\* "Check if done" on the re-read task store, then --once
CheckDone ==
  /\ pc = "checkDone"
  /\ IF (IF IsSpec THEN allSpecsImplemented(continuous, specDir, action)
                   ELSE allTasksComplete(taskFile, action))
     THEN /\ Exit(0, "complete")
          /\ UNCHANGED <<state, action, prompt, agentResult>>
     ELSE IF once
     THEN /\ Exit(0, "once")
          /\ UNCHANGED <<state, action, prompt, agentResult>>
     ELSE /\ pc' = "top"
          /\ state' = NoState
          /\ action' = "none"
          /\ prompt' = << >>
          /\ agentResult' = "none"
          /\ UNCHANGED <<exitCode, outcome>>
  /\ UNCHANGED <<config, library, running, world, iteration, commits, startCommitCount, history>>

Next ==
  \/ Start
  \/ Iterate
  \/ Supervise
  \/ SupervisorEnsure
  \/ Decide
  \/ Halt
  \/ DispatchLoop
  \/ RunSpecAction
  \/ AgentRun
  \/ EnsureCommit
  \/ ContinuousGuard
  \/ Reconcile
  \/ CheckDone

Spec == Init /\ [][Next]_vars

\* The loop is one sequential process: every step it can take it does take,
\* provided the agent and the supervisor return (runPi kills the agent when its
\* timeout fires).
FairSpec == Spec /\ WF_vars(Next)

\* ------------------------------------------------ one spec file, no loop
\* no loop is running: the loop's variables at rest
LoopIdle ==
  /\ variant = "specLoop"
  /\ once = FALSE
  /\ dryRun = FALSE
  /\ continuous = FALSE
  /\ supEvery = 0
  /\ context = "null"
  /\ isGitRepo = TRUE
  /\ storeExists = TRUE
  /\ taskFile = 0
  /\ specDir = EmptyDir
  /\ git = [head |-> 0, dirty |-> FALSE, staged |-> FALSE, age |-> "old"]
  /\ pushed = FALSE
  /\ pc = "start"
  /\ iteration = 0
  /\ commits = 0
  /\ startCommitCount = 0
  /\ state = NoState
  /\ action = "none"
  /\ prompt = << >>
  /\ exitCode = -1
  /\ outcome = "running"
  /\ agentRuns = 0
  /\ supRuns = 0
  /\ decideCalls = 0
  /\ pushFailures = 0
  /\ running = 0
  /\ agentResult = "none"

\* a spec file of any content, on which the helpers are called in any order
MarkerInit ==
  /\ LoopIdle
  /\ DirIdle
  /\ ExtraIdle
  /\ original \in Contents
  /\ file = original
  /\ wrote = FALSE
  /\ reported = Unread
  /\ trail = << >>

\* markSpecAsWIP(specPath)
MarkSpecAsWIP ==
  /\ Len(trail) < MaxOps
  /\ file' = markedContent(file)
  /\ wrote' = ~WIP_PATTERN(file)
  /\ trail' = Append(trail, "mark")
  /\ UNCHANGED <<original, reported, loopVars, dirVars, extraVars>>

\* unmarkSpecAsWIP(specPath)
UnmarkSpecAsWIP ==
  /\ Len(trail) < MaxOps
  /\ file' = unmarkedContent(file)
  /\ wrote' = WIP_PATTERN(file)
  /\ trail' = Append(trail, "unmark")
  /\ UNCHANGED <<original, reported, loopVars, dirVars, extraVars>>

\* readSpecFile(specDir, filename)
ReadSpecFile ==
  /\ Len(trail) < MaxOps
  /\ reported' = specContent(file)
  /\ wrote' = FALSE
  /\ trail' = Append(trail, "read")
  /\ UNCHANGED <<original, file, loopVars, dirVars, extraVars>>

MarkerNext ==
  \/ MarkSpecAsWIP
  \/ UnmarkSpecAsWIP
  \/ ReadSpecFile

MarkerSpec == MarkerInit /\ [][MarkerNext]_vars

\* ------------------------------------- several workers, one spec directory
\* a directory whose files were numbered one after the other, all workers idle
DirInit ==
  /\ LoopIdle
  /\ MarkerIdle
  /\ ExtraIdle
  /\ shared \in [FileNames -> SpecStates]
  /\ uniqueNumbers(shared)
  /\ wpc = [w \in Workers |-> "idle"]
  /\ wsnap = [w \in Workers |-> NoFile]
  /\ highest = maxNumber(shared)

\* specLoop builds its state: listSpecs, availableSpecs, nextSpec; decide
\* returns implement
WSnapshot(w) ==
  /\ wpc[w] = "idle"
  /\ \E f \in firstAvailable(shared) :
       wsnap' = [wsnap EXCEPT ![w] = f]
  /\ wpc' = [wpc EXCEPT ![w] = "snapped"]
  /\ UNCHANGED <<shared, highest, loopVars, markerVars, extraVars>>

\* runSpecAction: markSpecAsWIP(state.nextSpec.path), then the agent is spawned.
\* Reading a file that is gone throws; a file already marked is left as it is.
WClaim(w) ==
  /\ wpc[w] = "snapped"
  /\ IF shared[wsnap[w]] = "none"
     THEN /\ wpc' = [wpc EXCEPT ![w] = "crashed"]
          /\ UNCHANGED shared
     ELSE /\ shared' = [shared EXCEPT ![wsnap[w]] = "wip"]
          /\ wpc' = [wpc EXCEPT ![w] = "implementing"]
  /\ UNCHANGED <<wsnap, highest, loopVars, markerVars, extraVars>>

\* the agent of an implement action ends; it was told to delete the spec file
WFinish(w) ==
  /\ wpc[w] = "implementing"
  /\ \E deleted \in BOOLEAN :
       shared' = IF deleted THEN [shared EXCEPT ![wsnap[w]] = "none"] ELSE shared
  /\ wpc' = [wpc EXCEPT ![w] = "idle"]
  /\ wsnap' = [wsnap EXCEPT ![w] = NoFile]
  /\ UNCHANGED <<highest, loopVars, markerVars, extraVars>>

\* createSpec up to its write: getNextSpecNumber and createSpecFilename
WGetNumber(w) ==
  /\ wpc[w] = "idle"
  /\ getNextSpecNumber(shared) <= MaxNumber
  /\ \E d \in Descs :
       wsnap' = [wsnap EXCEPT ![w] = <<getNextSpecNumber(shared), d>>]
  /\ wpc' = [wpc EXCEPT ![w] = "creating"]
  /\ highest' = IF getNextSpecNumber(shared) > highest
                THEN getNextSpecNumber(shared) ELSE highest
  /\ UNCHANGED <<shared, loopVars, markerVars, extraVars>>

\* createSpec: Bun.write(path, content)
WWrite(w) ==
  /\ wpc[w] = "creating"
  /\ shared' = [shared EXCEPT ![wsnap[w]] = "plain"]
  /\ wpc' = [wpc EXCEPT ![w] = "idle"]
  /\ wsnap' = [wsnap EXCEPT ![w] = NoFile]
  /\ UNCHANGED <<highest, loopVars, markerVars, extraVars>>

\* deleteSpec(specPath)
WDelete(w) ==
  /\ wpc[w] = "idle"
  /\ \E f \in readdir(shared) :
       shared' = [shared EXCEPT ![f] = "none"]
  /\ UNCHANGED <<wpc, wsnap, highest, loopVars, markerVars, extraVars>>

DirNext ==
  \E w \in Workers :
    \/ WSnapshot(w)
    \/ WClaim(w)
    \/ WFinish(w)
    \/ WGetNumber(w)
    \/ WWrite(w)
    \/ WDelete(w)

DirSpec == DirInit /\ [][DirNext]_vars

\* --------------------------------------- run options, from action to agent
\* decide has returned work(prompt, options) or generate(prompt, options)
OptionsInit ==
  /\ LoopIdle
  /\ MarkerIdle
  /\ DirIdle
  /\ MoreIdle
  /\ StreamIdle
  /\ ResolverIdle
  /\ TwinIdle
  /\ call \in [stage : {"decided"}, kind : {"loop", "specLoop"},
                options : [OptionNames -> OptionValues],
                runOptions : {NoOptions}, args : {NoOptions}]

\* case "work" / "generate" (or runSpecAction): the call of runPi
CallRunPi ==
  /\ call.stage = "decided"
  /\ call' = [call EXCEPT !.stage = "called",
                          !.runOptions = loopRunOptions(call.kind, call.options)]
  /\ UNCHANGED <<loopVars, markerVars, dirVars, feed, resolver, twin, moreVars>>

\* runPi: the arguments of the spawned pi process
SpawnPi ==
  /\ call.stage = "called"
  /\ call' = [call EXCEPT !.stage = "spawned", !.args = piArgs(call.runOptions)]
  /\ UNCHANGED <<loopVars, markerVars, dirVars, feed, resolver, twin, moreVars>>

OptionsNext ==
  \/ CallRunPi
  \/ SpawnPi

OptionsSpec == OptionsInit /\ [][OptionsNext]_vars

\* ------------------------------------------------ accumulating chunks
\* let buffer = ""; the stream holds up to MaxRecords complete records
StreamInit ==
  /\ LoopIdle
  /\ MarkerIdle
  /\ DirIdle
  /\ MoreIdle
  /\ OptionsIdle
  /\ ResolverIdle
  /\ TwinIdle
  /\ \E ids \in SeqsOf(RecordIds, MaxRecords) :
       feed = [records |-> ids, input |-> jsonl(ids), buffer |-> << >>,
               emitted |-> << >>, chunks |-> 0]

\* one turn of `for await (const chunk of stream)`: the chunk is any
\* non-empty prefix of what the stream has not delivered yet
Chunk ==
  /\ feed.input # << >>
  /\ \E n \in 1..Len(feed.input), pastNewline \in BOOLEAN :
       LET buffer == feed.buffer \o SubSeq(feed.input, 1, n)
           result == parseChunk(buffer, pastNewline)
       IN feed' = [feed EXCEPT !.input = SubSeq(feed.input, n + 1, Len(feed.input)),
                               !.emitted = feed.emitted \o result.values,
                               !.buffer = slice(buffer, result.read),
                               !.chunks = feed.chunks + 1]
  /\ UNCHANGED <<loopVars, markerVars, dirVars, call, resolver, twin, moreVars>>

StreamNext == Chunk

StreamSpec == StreamInit /\ [][StreamNext]_vars

\* ------------------------------------------------- resolving run options
\* run options with or without an explicit model and a cycling list, and the
\* models that have credentials
ResolverInit ==
  /\ LoopIdle
  /\ MarkerIdle
  /\ DirIdle
  /\ MoreIdle
  /\ OptionsIdle
  /\ StreamIdle
  /\ TwinIdle
  /\ resolver \in [stage : {"given"}, model : {"none"} \cup ModelNames,
                    models : SeqsOf(Tokens, MaxCandidates),
                    creds : SUBSET ModelNames, selected : {NoSelection}]

Resolve ==
  /\ resolver.stage = "given"
  /\ resolver' = [resolver EXCEPT
                    !.stage = "resolved",
                    !.selected = resolveRunOptions(resolver.model, resolver.models,
                                                   resolver.creds)]
  /\ UNCHANGED <<loopVars, markerVars, dirVars, call, feed, twin, moreVars>>

ResolverNext == Resolve

ResolverSpec == ResolverInit /\ [][ResolverNext]_vars

\* ------------------------------------- two runs with different histories
\* the two repositories differ in the number of commits only
TwinInit ==
  /\ LoopIdle
  /\ MarkerIdle
  /\ DirIdle
  /\ MoreIdle
  /\ OptionsIdle
  /\ StreamIdle
  /\ ResolverIdle
  /\ \E h1 \in 0..MaxHistory, h2 \in 0..MaxHistory, d \in BOOLEAN, a \in {"fresh", "old"},
        e \in SupervisorChoices :
       /\ (h1 = 0 \/ h2 = 0) => a = "old"
       /\ twin = [pc |-> "start", every |-> e, iteration |-> 0, recounted |-> FALSE,
                  git |-> <<[head |-> h1, dirty |-> d, staged |-> FALSE, age |-> a],
                            [head |-> h2, dirty |-> d, staged |-> FALSE, age |-> a]>>,
                  start |-> <<0, 0>>, read |-> <<0, 0>>, commits |-> <<0, 0>>,
                  sup |-> <<FALSE, FALSE>>, push |-> <<FALSE, FALSE>>]

\* const startCommitCount = await getCommitCount(); let commits = 0
TwinStart ==
  /\ twin.pc = "start"
  /\ twin' = [twin EXCEPT !.pc = "top",
                          !.start = [i \in 1..2 |-> twin.git[i].head],
                          !.read = [i \in 1..2 |-> twin.git[i].head]]
  /\ UNCHANGED <<loopVars, markerVars, dirVars, call, feed, resolver, moreVars>>

\* the top of a pass: the supervisor cadence, from each run's own count
TwinTop ==
  /\ twin.pc = "top"
  /\ twin.iteration < MaxIterations
  /\ twin' = [twin EXCEPT !.pc = "agent",
                          !.iteration = twin.iteration + 1,
                          !.push = <<FALSE, FALSE>>,
                          !.sup = [i \in 1..2 |->
                                     shouldRunSupervisor(twin.every, twin.commits[i])]]
  /\ UNCHANGED <<loopVars, markerVars, dirVars, call, feed, resolver, moreVars>>

\* the agent (worker or supervisor) does the same in both repositories, and
\* ensureCommit follows
TwinAgent ==
  /\ twin.pc = "agent"
  /\ \E k \in 0..MaxAgentCommits, d \in BOOLEAN, a \in {"fresh", "old"} :
       /\ (k = 0 /\ twin.git[1].age = "old" => a = "old")
       /\ (\E i \in 1..2 : twin.git[i].head + k = 0) => a = "old"
       /\ twin' = [twin EXCEPT
                     !.pc = "recount",
                     !.git = [i \in 1..2 |-> ensureCommit(agentEffect(twin.git[i], k, d, a))]]
  /\ UNCHANGED <<loopVars, markerVars, dirVars, call, feed, resolver, moreVars>>

\* every pass ends with the recount; a worker pass then applies the push
\* cadence, a supervisor pass goes back to the top without it
TwinRecount ==
  /\ twin.pc = "recount"
  /\ LET count == [i \in 1..2 |-> commitsSince(twin.git[i].head, twin.start[i])]
     IN twin' = [twin EXCEPT
                   !.pc = "top",
                   !.recounted = TRUE,
                   !.read = [i \in 1..2 |-> twin.git[i].head],
                   !.commits = count,
                   !.push = [i \in 1..2 |->
                               ~twin.sup[i] /\ shouldPush(count[i], PushEvery)]]
  /\ UNCHANGED <<loopVars, markerVars, dirVars, call, feed, resolver, moreVars>>

TwinNext ==
  \/ TwinStart
  \/ TwinTop
  \/ TwinAgent
  \/ TwinRecount

TwinSpec == TwinInit /\ [][TwinNext]_vars

\* ------------------------------------------- runPi: agent against timer
\* the loop is about to call runPi for the first time
RaceInit ==
  /\ LoopIdle
  /\ MarkerIdle
  /\ DirIdle
  /\ OptionsIdle
  /\ StreamIdle
  /\ ResolverIdle
  /\ TwinIdle
  /\ DocIdle
  /\ ListingIdle
  /\ race = [pc |-> "caller", run |-> 0, proc |-> "none",
             timer |-> [i \in Runs |-> "unset"], kills |-> [i \in Runs |-> 0],
             result |-> [i \in Runs |-> "none"]]

\* const proc = spawn(...); const timeout = setTimeout(...); await proc.exited
RunPiSpawn ==
  /\ race.pc = "caller"
  /\ race.run < MaxRuns
  /\ race' = [race EXCEPT !.pc = "awaiting", !.run = race.run + 1, !.proc = "running",
                          !.timer[race.run + 1] = "armed"]
  /\ UNCHANGED <<otherVars, doc, listing>>

\* the agent process ends, by itself or because it was killed
AgentExits ==
  /\ race.proc \in {"running", "killed"}
  /\ \E r \in (IF race.proc = "killed" THEN {"timeout"} ELSE {"stop", "error"}) :
       race' = [race EXCEPT !.proc = "exited", !.result[race.run] = r]
  /\ UNCHANGED <<otherVars, doc, listing>>

\* the callback of setTimeout of invocation i: proc.kill() on that
\* invocation's process, which may have ended already
TimerFires(i) ==
  /\ race.timer[i] = "armed"
  /\ race' = [race EXCEPT !.timer[i] = "fired",
                          !.kills[i] = race.kills[i] + 1,
                          !.proc = IF i = race.run /\ race.proc = "running"
                                   THEN "killed" ELSE race.proc]
  /\ UNCHANGED <<otherVars, doc, listing>>

\* a runPi that returns without clearTimeout
RunPiResumeNoClear ==
  /\ race.pc = "awaiting"
  /\ race.proc = "exited"
  /\ race' = [race EXCEPT !.pc = "caller"]
  /\ UNCHANGED <<otherVars, doc, listing>>

\* proc.exited has resolved: clearTimeout(timeout), and runPi returns
RunPiResume ==
  /\ race.pc = "awaiting"
  /\ race.proc = "exited"
  /\ race' = [race EXCEPT !.pc = "caller",
                          !.timer[race.run] = IF race.timer[race.run] = "armed"
                                              THEN "cleared" ELSE race.timer[race.run]]
  /\ UNCHANGED <<otherVars, doc, listing>>

RaceNext ==
  \/ RunPiSpawn
  \/ AgentExits
  \/ \E i \in Runs : TimerFires(i)
  \/ RunPiResume

RaceSpec == RaceInit /\ [][RaceNext]_vars

\* ------------------------------------------- the task file in the state
\* const taskFileContent = readFile(config.taskFile), of any content
DocInit ==
  /\ LoopIdle
  /\ MarkerIdle
  /\ DirIdle
  /\ OptionsIdle
  /\ StreamIdle
  /\ ResolverIdle
  /\ TwinIdle
  /\ RaceIdle
  /\ ListingIdle
  /\ doc \in [stage : {"read"}, kind : {"loop", "runLoop"}, content : Docs,
               todos : {<< >>}, hasTodos : {FALSE}, nextTodo : {NoTodo}]

\* "Build state": loop() derives hasTodos and nextTodo from getUncheckedTodos,
\* runLoop from hasUncheckedTodos and getNextTodo
BuildTodoState ==
  /\ doc.stage = "read"
  /\ doc' = [doc EXCEPT
               !.stage = "built",
               !.todos = getUncheckedTodos(doc.content),
               !.hasTodos = IF doc.kind = "loop"
                            THEN Len(getUncheckedTodos(doc.content)) > 0
                            ELSE hasUncheckedTodos(doc.content),
               !.nextTodo = IF doc.kind = "loop"
                            THEN (IF getUncheckedTodos(doc.content) = << >> THEN NoTodo
                                  ELSE getUncheckedTodos(doc.content)[1])
                            ELSE getNextTodo(doc.content)]
  /\ UNCHANGED <<otherVars, race, listing>>

DocNext == BuildTodoState

DocSpec == DocInit /\ [][DocNext]_vars

\* ------------------------------------- listing and numbering a directory
\* a directory that is missing, or holds up to MaxFiles files of different
\* names in the order readdir returns them
ListingInit ==
  /\ LoopIdle
  /\ MarkerIdle
  /\ DirIdle
  /\ OptionsIdle
  /\ StreamIdle
  /\ ResolverIdle
  /\ TwinIdle
  /\ RaceIdle
  /\ DocIdle
  /\ \E e \in BOOLEAN, fs \in SeqsOf(Files, MaxFiles) :
       /\ ~e => fs = << >>
       /\ \A i \in 1..Len(fs), j \in 1..Len(fs) :
            fileName(fs[i]) = fileName(fs[j]) => i = j
       /\ listing = [stage |-> "dir", exists |-> e, files |-> fs,
                     specs |-> << >>, availableSpecs |-> << >>,
                     hasAvailableSpecs |-> FALSE, nextSpec |-> NoSpecFile,
                     number |-> 0, created |-> NoSpecFile]

\* specLoop, "Build state": specs, availableSpecs, hasAvailableSpecs, nextSpec
BuildSpecState ==
  /\ listing.stage = "dir"
  /\ LET specs == listSpecsSorted(listing.exists, listing.files)
         unclaimed == filterAvailable(specs)
     IN listing' = [listing EXCEPT
                      !.stage = "built",
                      !.specs = specs,
                      !.availableSpecs = unclaimed,
                      !.hasAvailableSpecs = Len(unclaimed) > 0,
                      !.nextSpec = IF Len(unclaimed) > 0 THEN unclaimed[1]
                                   ELSE NoSpecFile]
  /\ UNCHANGED <<otherVars, race, doc>>

\* createSpec(specDir, description, content): ensureSpecDir, the next number,
\* the file name, the write
CreateSpec ==
  /\ listing.stage = "dir"
  /\ nextNumberOfFiles(TRUE, listing.files) < 10
  /\ \E d \in Descs :
       LET number == nextNumberOfFiles(TRUE, listing.files)
           newFile == [prefix |-> formatSpecNumber(number), desc |-> d, ext |-> "md",
                       raw |-> <<"a">>]
       IN listing' = [listing EXCEPT
                        !.stage = "created",
                        !.exists = TRUE,
                        !.number = number,
                        !.created = newFile,
                        !.files = Append(listing.files, newFile)]
  /\ UNCHANGED <<otherVars, race, doc>>

ListingNext ==
  \/ BuildSpecState
  \/ CreateSpec

ListingSpec == ListingInit /\ [][ListingNext]_vars

\* ------------------------------------------------------------------ claims

\* the passes that have built a state so far
Passes == supRuns + decideCalls + (IF pc = "built" THEN 1 ELSE 0)

\* C1: the number of passes that build a state (each runs the supervisor or calls
\* decide) never exceeds maxIterations, supervisor passes included; when the
\* iteration counter exceeds maxIterations the loop ends and that last pass has
\* called neither decide nor the supervisor nor the agent.
C1_CeilingBoundsPasses ==
  /\ Passes <= MaxIterations
  /\ agentRuns <= decideCalls
  /\ (iteration > MaxIterations =>
        /\ pc = "done"
        /\ outcome = "ceiling"
        /\ Passes = MaxIterations
        /\ state = NoState)

C1_Witness == outcome = "ceiling" /\ supRuns > 0 /\ decideCalls > 0

\* C2: a halt action ends the loop in the same iteration with exit status 0, and
\* the step from decide's return to the exit invokes no agent, commits nothing
\* and pushes nothing; with an empty checklist and no context decide sees
\* hasTodos = false and context = null, and a halt there ends the run before any
\* agent invocation.
C2_HaltTerminatesAtOnce ==
  /\ [][(pc = "dispatch" /\ action = "halt") =>
          /\ pc' = "done"
          /\ exitCode' = 0
          /\ outcome' = "halt"
          /\ UNCHANGED <<world, iteration, commits, history>>]_vars
  /\ [](pc = "dispatch" /\ ~IsSpec /\ taskFile = 0 /\ context = "null" =>
          ~state.hasItems /\ state.context = "null")
  /\ [](outcome = "halt" /\ iteration = 1 => agentRuns = 0 /\ supRuns = 0 /\ ~pushed)

C2_Witness ==
  /\ outcome = "halt"
  /\ iteration = 1
  /\ ~IsSpec
  /\ taskFile = 0
  /\ context = "null"
  /\ ~state.hasItems

\* C3: in every pass the supervisor runs iff one is configured and the commit
\* count since loop start is positive and divisible by the cadence; such a pass
\* calls decide not at all and dispatches no action; and when the next pass
\* begins ensureCommit has run and the commit count has been recomputed.
C3_SupervisorCadence ==
  /\ [][pc = "built" =>
          IF supEvery # 0 /\ commits > 0 /\ commits % supEvery = 0
          THEN /\ supRuns' = supRuns + 1
               /\ decideCalls' = decideCalls
               /\ agentRuns' = agentRuns
               /\ pc' = "supEnsure"
          ELSE /\ supRuns' = supRuns
               /\ decideCalls' = decideCalls + 1]_vars
  /\ [](pc = "supEnsure" => action = "none" /\ prompt = << >>)
  /\ [][pc = "supEnsure" => pc' = "top" /\ decideCalls' = decideCalls
                             /\ agentRuns' = agentRuns]_vars
  /\ [](pc = "top" =>
          /\ commits = git.head - startCommitCount
          /\ (git.dirty /\ iteration > 0 => recentCommit(git)))

C3_Witness ==
  /\ pc = "top"
  /\ supRuns > 0
  /\ decideCalls > 0
  /\ commits > 0

\* C4: in specLoop with continuous = true, when a research action has completed
\* and the directory re-read after it holds no available (non-WIP) spec, the loop
\* ends in that iteration with exit status 1, without a push and without another
\* iteration; so no iteration goes on past a research that left nothing available.
C4_ContinuousGuard ==
  /\ [][pc = "guard" /\ continuous /\ availableSpecs(specDir) = {} =>
          /\ pc' = "done"
          /\ exitCode' = 1
          /\ outcome' = "guard"
          /\ iteration' = iteration
          /\ ~pushed'
          /\ UNCHANGED <<world, history>>]_vars
  /\ [](IsSpec /\ continuous /\ action = "research" /\ pc \in {"recount", "checkDone"}
          => availableSpecs(specDir) # {})
  /\ [](outcome = "guard" => exitCode = 1 /\ continuous /\ action = "research")

C4_Witness ==
  /\ outcome = "guard"
  /\ wipSpecs(specDir) # {}
  /\ agentRuns > 0

\* C5: in the checklist loops, at the end of an iteration whose action was work,
\* the loop ends with the "all tasks complete" success exit iff the task file as
\* re-read then holds no unchecked item, whatever the snapshot of the iteration
\* said; with items left it goes on to the next iteration (or the --once exit).
C5_CompleteOnFreshRead ==
  [][pc = "checkDone" /\ ~IsSpec /\ action = "work" =>
       /\ (outcome' = "complete") <=> (taskFile = 0)
       /\ (taskFile = 0 => pc' = "done" /\ exitCode' = 0)
       /\ (taskFile # 0 /\ ~once => pc' = "top")
       /\ (taskFile # 0 /\ once => outcome' = "once")]_vars

C5_Witness ==
  /\ ~IsSpec
  /\ outcome = "complete"
  /\ action = "work"
  /\ state.hasItems
  /\ taskFile = 0

\* C6: specLoop with continuous = true never ends with "all specs implemented",
\* also when an implement action leaves the directory without any spec file; once
\* past the repository validation it ends only by halt, the continuous-mode
\* guard, the ceiling, --once or --dry-run.
C6_ContinuousNeverCompletes ==
  /\ [](IsSpec /\ continuous =>
          outcome \in {"running", "notgit", "halt", "guard", "ceiling", "once", "dryrun"})
  /\ [][pc = "checkDone" /\ IsSpec /\ continuous /\ ~once => pc' = "top"]_vars

C6_Witness ==
  /\ IsSpec
  /\ continuous
  /\ pc = "checkDone"
  /\ action = "implement"
  /\ listSpecs(specDir) = {}
  /\ ~once

C8_ResumeIffSnapshotDirty ==
  (variant # "runLoop" /\ (pc = "agent" \/ outcome = "dryrun")) =>
     /\ (prompt = BasePrompt \o <<RESUME_SUFFIX>>) <=> state.hasUncommittedChanges
     /\ (prompt = BasePrompt) <=> ~state.hasUncommittedChanges

C8_Witness ==
  /\ IsSpec
  /\ pc = "agent"
  /\ action = "implement"
  /\ git.staged
  /\ git.dirty
  /\ specDir[state.next] = "wip"
  /\ ~state.hasUncommittedChanges
  /\ prompt = BasePrompt

\* C9 (as claimed): whenever an agent run ends with uncommitted changes,
\* ensureCommit commits them in that iteration, so the working tree is clean
\* when ensureCommit returns.
C9_CleanAfterEnsureCommit ==
  (pc \in {"guard", "recount"} \/ outcome = "generated") => ~git.dirty

\* C10 (as claimed): with --dry-run the loop ends in its first pass with no agent
\* invoked, and no step of the loop changes a spec/task file or version-control
\* state: no WIP mark, nothing staged, committed or pushed.
C10_DryRunChangesNothing ==
  /\ [][dryRun /\ pc # "start" =>
          UNCHANGED <<taskFile, specDir, git, pushed, agentRuns, supRuns>>]_vars
  /\ [](dryRun /\ pc = "done" /\ isGitRepo => iteration = 1)

\* C11: with --once one iteration is executed: decide is called once (never
\* twice), the agent at most once, the supervisor never (the commit count is 0
\* when iteration 1 tests the cadence), and the loop ends at the end of
\* iteration 1 whatever the action was.
C11_OnceSingleIteration ==
  /\ [](once => iteration <= 1 /\ decideCalls <= 1 /\ agentRuns <= 1 /\ supRuns = 0)
  /\ [](once /\ pc = "built" => commits = 0)
  /\ [](once /\ pc = "done" /\ isGitRepo => iteration = 1 /\ decideCalls = 1)
  /\ [][once /\ pc = "checkDone" => pc' = "done" /\ exitCode' = 0]_vars

C11_Witness ==
  /\ once
  /\ outcome = "once"
  /\ IsGenerate(action)
  /\ agentRuns = 1
  /\ git.head > startCommitCount
  /\ supEvery = 1

\* C13 (as claimed): at the end of an iteration whose implement action claimed
\* the snapshot's nextSpec and whose agent ended normally, that spec file is
\* deleted: the next snapshot lists it neither as available nor as WIP.
C13_ImplementDeletesSpec ==
  (/\ IsSpec
   /\ action = "implement"
   /\ state.next # NoSpec
   /\ agentResult = "stop"
   /\ (pc = "checkDone" \/ outcome \in {"complete", "once"}))
  => state.next \notin listSpecs(specDir)

\* C19 (as claimed): an agent run that the timeout killed or that ended with an
\* error is a failure for the loop, and the loop never takes the "all tasks
\* complete" success exit at the end of an iteration whose agent run failed.
C19_FailedRunIsNoSuccess ==
  outcome = "complete" => agentResult = "stop"

\* C20: at most one agent process is in progress in a loop instance; one is in
\* progress exactly between its spawn and the return of runPi, so ensureCommit,
\* the recount, the push and the next iteration start only after it has ended,
\* also when the timeout killed it; and every iteration that got that far
\* started exactly one agent.
C20_OneAgentAtATime ==
  /\ [](running <= 1)
  /\ []((running = 1) <=> (pc = "agent"))
  /\ [](pc \in {"ensure", "guard", "recount", "checkDone", "top", "built", "supEnsure"}
          => running = 0 /\ agentRuns = decideCalls)
  /\ [](pc = "agent" => agentRuns + 1 = decideCalls)
  /\ [][pc = "agent" => pc' = "ensure" /\ running' = 0
                         /\ agentRuns' = agentRuns + 1
                         /\ UNCHANGED <<iteration, commits, pushed>>]_vars

C20_Witness ==
  /\ pc = "ensure"
  /\ agentResult = "timeout"
  /\ running = 0
  /\ iteration = 2
  /\ agentRuns = 2

\* the operation a step of the file helpers has just applied
Applied(op) == trail' # trail /\ trail'[Len(trail')] = op

AllMarks == \A i \in 1..Len(trail) : trail[i] = "mark"

\* C12 (as claimed): no spec file is being implemented by two loop instances at
\* the same time, under every interleaving of their snapshot, claim and agent
\* steps.
C12_NoDoubleImplement ==
  \A v, w \in Workers :
    (v # w /\ wpc[v] = "implementing" /\ wpc[w] = "implementing")
      => wsnap[v] # wsnap[w]

\* C14: markSpecAsWIP is idempotent: for every file content, marking a marked
\* file writes nothing and leaves the content as it is, mark(mark(x)) = mark(x),
\* a mark adds at most one marker and only to an unmarked file, and however
\* often a file is marked it holds one marker more than it had at most.
C14_MarkIdempotent ==
  /\ [](markedContent(markedContent(file)) = markedContent(file))
  /\ [][Applied("mark") /\ WIP_PATTERN(file) => file' = file /\ ~wrote']_vars
  /\ [][Applied("mark") =>
          /\ WIP_PATTERN(file')
          /\ file' = markedContent(file')
          /\ markerCount(file') =
               markerCount(file) + (IF WIP_PATTERN(file) THEN 0 ELSE 1)]_vars
  /\ [](AllMarks => markerCount(file) <= markerCount(original) + 1)
  /\ [](AllMarks /\ Len(trail) >= 2 => ~wrote)

C14_Witness ==
  /\ trail = <<"mark", "mark">>
  /\ original = <<"a", "nl">>
  /\ file = <<"M", "nl", "nl", "a", "nl">>
  /\ ~wrote

\* C15 (as claimed): unmarkSpecAsWIP is idempotent and a no-op on unmarked
\* files: unmark(unmark(x)) = unmark(x) for every content x, what it leaves
\* never starts with the marker, and it does not write an unmarked file.
C15_UnmarkIdempotent ==
  /\ [](unmarkedContent(unmarkedContent(file)) = unmarkedContent(file))
  /\ [](~WIP_PATTERN(unmarkedContent(file)))
  /\ [][Applied("unmark") /\ ~WIP_PATTERN(file) => file' = file /\ ~wrote']_vars

\* C16 (as claimed, and read up to leading and trailing white space): for a
\* content x that does not start with the marker, unmark after mark leaves a
\* file equivalent to x (not marked, the same text), and readSpecFile reports
\* the same content for x, for the marked file and for the unmarked file.
C16_RoundTrip ==
  ~WIP_PATTERN(original) =>
    /\ (trail = <<"mark", "unmark">> =>
          ~isWIP(file) /\ trim(file) = trim(original))
    /\ (trail \in {<<"read">>, <<"mark", "read">>, <<"mark", "unmark", "read">>} =>
          trim(reported) = trim(specContent(original)))

\* C17 (as claimed): a number that getNextSpecNumber returns is greater than
\* every number the directory has held or that was returned before, also after
\* the file with the highest number has been deleted.
C17_NumbersNeverReused ==
  [][\A w \in Workers :
       (/\ wpc[w] = "idle"
        /\ wpc'[w] = "creating"
        /\ \A v \in Workers : wpc[v] \notin {"creating"})
       => parseSpecNumber(wsnap'[w]) > highest]_vars

\* C18 (as claimed): after any interleaving of createSpec and deleteSpec steps
\* of the workers no two files of the directory have the same number, and no
\* createSpec writes over a file that is there.
C18_NumbersUnique ==
  /\ [](uniqueNumbers(shared))
  /\ [][\A w \in Workers :
          (wpc[w] = "creating" /\ wpc'[w] = "idle") => shared[wsnap[w]] = "none"]_vars

\* C21 (as claimed): the loop pushes every pushEvery commits, so at the end of an
\* iteration fewer than pushEvery commits are unpushed; in particular the
\* recount that first finds pushEvery or more commits since loop start (no push
\* can have been attempted before it) is followed by a push.
C21_PushEveryN ==
  [][(/\ pc = "recount"
      /\ commits < PushEvery
      /\ git.head - startCommitCount >= PushEvery) => pushed']_vars

C23_ExitStatus ==
  pc = "done" =>
    /\ (outcome \in {"complete", "halt"} => exitCode = 0)
    /\ (outcome \in {"ceiling", "guard"} => exitCode # 0)

\* C24: provided every agent and supervisor run returns, every run of the loop
\* terminates, at the latest by the iteration ceiling.
C24_Terminates == <>(pc = "done")

C24_Witness ==
  /\ variant = "loop"
  /\ outcome = "ceiling"
  /\ agentRuns = MaxIterations
  /\ taskFile = 0
  /\ git.head = startCommitCount

\* C28: ensureCommit first looks at the age of the last commit: when it is
\* recent nothing is committed, dirty tree or not, and true is returned;
\* otherwise a dirty tree is staged and committed in one commit and true is
\* returned; otherwise nothing is committed and false is returned. No call
\* makes more than one commit.
C28_EnsureCommitOrder ==
  /\ [][(pc \in {"ensure", "supEnsure"}) =>
          IF recentCommit(git) THEN git' = git
          ELSE IF git.dirty
               THEN git' = [git EXCEPT !.head = git.head + 1, !.dirty = FALSE,
                                       !.staged = FALSE, !.age = "fresh"]
               ELSE git' = git]_vars
  /\ [][(pc \in {"ensure", "supEnsure"}) =>
          (git'.head = git.head \/ git'.head = git.head + 1)]_vars
  /\ [](recentCommit(git) => ensureCommitReturn(git))
  /\ [](~recentCommit(git) => (ensureCommitReturn(git) <=> git.dirty))
  /\ [](ensureCommitReturn(git) <=> (ensureCommit(git) # git \/ recentCommit(git)))

C28_Witness ==
  /\ pc = "recount"
  /\ git.dirty
  /\ recentCommit(git)
  /\ agentRuns = 1
  /\ git.head = startCommitCount + 1

\* C29: a push is attempted at the end of a work/generate iteration iff the
\* commit count recomputed after ensureCommit is positive and divisible by
\* pushEvery; it comes with the recount, before the completion check, and no
\* other step pushes: not a supervisor pass, not a halt, not a dry run.
C29_PushCadence ==
  /\ [][pc = "recount" =>
          /\ commits' = git.head - startCommitCount
          /\ pushed' <=> (commits' > 0 /\ commits' % PushEvery = 0)
          /\ pc' = "checkDone"]_vars
  /\ [][pc # "recount" => (pushed' => pushed) /\ pushFailures' = pushFailures]_vars
  /\ [](pc \in {"built", "supEnsure", "dispatch", "agent", "ensure", "guard", "recount"}
          => ~pushed)
  /\ [](outcome \in {"halt", "dryrun", "guard", "generated", "notgit"} => ~pushed)

C29_Witness ==
  /\ pushed
  /\ pc = "checkDone"
  /\ commits = PushEvery
  /\ agentRuns = 2
  /\ IsGenerate(action)

\* C25 (as claimed): every run option given to work() or generate() (model,
\* provider, models, thinking, tools) reaches the agent invocation of loop()
\* unchanged.
C25_OptionsReachAgent ==
  (call.stage = "spawned" /\ call.kind = "loop") =>
     \A o \in OptionNames : call.args[o] = call.options[o]

\* the records of the stream, as the texts the processor should emit
RECURSIVE recordTexts(_)
recordTexts(ids) ==
  IF ids = << >> THEN << >> ELSE <<recordText(Head(ids))>> \o recordTexts(Tail(ids))

\* what the buffer holds once the separating newlines before it are skipped
pending(b) == SubSeq(b, skipNewlines(b, 1), Len(b))

\* the emitted events are the first records of the stream, whole and in order
EmittedInOrder ==
  /\ Len(feed.emitted) <= Len(feed.records)
  /\ feed.emitted = SubSeq(recordTexts(feed.records), 1, Len(feed.emitted))
  /\ (feed.input = << >>) => (feed.emitted = recordTexts(feed.records))

\* C26 (as claimed): the processor emits exactly the original records, in
\* order, once each and never a partial one, and after each chunk the buffer
\* holds only the trailing incomplete record.
C26_BufferOnlyIncompleteRecord ==
  /\ EmittedInOrder
  /\ Len(feed.buffer) < 3
  /\ \A i \in 1..Len(feed.buffer) : feed.buffer[i] # "nl"

\* C26 (amended): the processor emits exactly the original records, in order,
\* once each and never a partial one, and after each chunk the buffer holds no
\* complete record: it holds the trailing incomplete record, which the newline
\* that separates it from the last emitted record may precede.
C26_StreamRecords ==
  /\ EmittedInOrder
  /\ parseFrom(feed.buffer, 1).values = << >>
  /\ Len(pending(feed.buffer)) < 3
  /\ Len(feed.buffer) <= Len(pending(feed.buffer)) + 1
  /\ \A i \in 1..Len(pending(feed.buffer)) : pending(feed.buffer)[i] # "nl"

\* a stream of MaxRecords records was delivered in more chunks than it has
\* records, so that a chunk ended inside a record or before its newline
C26_Witness ==
  /\ feed.input = << >>
  /\ Len(feed.records) = MaxRecords
  /\ feed.emitted = recordTexts(feed.records)
  /\ feed.chunks > Len(feed.records)

\* C27: with a cycling list and no explicit model the resolver selects the
\* first candidate, in list order, that has credentials, with that candidate's
\* own intensity; when no candidate has credentials it selects the first
\* candidate of the list.
C27_FirstCredentialedCandidate ==
  (resolver.stage = "resolved" /\ resolver.model = "none" /\ resolver.models # << >>) =>
     LET cands == [i \in 1..Len(resolver.models) |-> parseToken(resolver.models[i])]
         hits == {i \in 1..Len(resolver.models) : cands[i].model \in resolver.creds}
     IN IF hits = {} THEN resolver.selected = cands[1]
        ELSE \E i \in hits : /\ \A j \in hits : i <= j
                              /\ resolver.selected = cands[i]

\* the list "a:high,b:low" with credentials for b only selects b, low
C27_Witness ==
  /\ resolver.stage = "resolved"
  /\ resolver.model = "none"
  /\ resolver.models = << <<"a", ":", "high">>, <<"b", ":", "low">> >>
  /\ resolver.creds = {"b"}
  /\ resolver.selected = [model |-> "b", intensity |-> "low"]

C32_ExitOrTimeout ==
  /\ \A i \in Runs :
       /\ race.kills[i] <= 1
       /\ (race.timer[i] = "cleared") => (race.kills[i] = 0)
       /\ (race.timer[i] = "fired") => (race.kills[i] = 1)
       /\ (i < race.run \/ (i = race.run /\ race.pc = "caller")) =>
             (race.timer[i] \in {"fired", "cleared"})
       /\ (i > race.run) => (race.timer[i] = "unset" /\ race.kills[i] = 0)
  /\ (race.pc = "caller" /\ race.run > 0) => (race.proc = "exited")
  /\ (race.proc = "killed") => (race.timer[race.run] = "fired")
  /\ \A i \in Runs : (race.result[i] = "timeout") => (race.timer[i] = "fired")

\* one invocation ended by the agent's own exit, the next by the timeout
C32_Witness ==
  /\ race.pc = "caller"
  /\ race.run = 2
  /\ race.timer[1] = "cleared"
  /\ race.timer[2] = "fired"
  /\ race.kills[1] = 0
  /\ race.kills[2] = 1
  /\ race.result[2] = "timeout"

\* the lines of a task file, in document order, each with the newline that
\* ends it, if there is one
RECURSIVE linesOf(_)
linesOf(c) ==
  IF c = << >> THEN << >>
  ELSE LET e == lineEnd(c, 1) IN
       <<SubSeq(c, 1, IF e <= Len(c) THEN e ELSE Len(c))>> \o
         (IF e >= Len(c) THEN << >> ELSE linesOf(SubSeq(c, e + 1, Len(c))))

\* a line made of a bullet, an empty box, white space and a label (which may
\* be empty), with nothing but white space before the bullet and the box
openLine(l) ==
  \E i \in 1..Len(l), j \in 1..Len(l) :
     /\ i < j /\ j < Len(l)
     /\ l[i] = "b" /\ l[j] = "o" /\ isSpace(l[j + 1])
     /\ \A k \in 1..(j - 1) : k # i => l[k] = "sp"

\* the label of an open line: what follows the box, trimmed
labelOf(l) ==
  LET j == CHOOSE k \in 1..Len(l) : l[k] = "o" /\ \A h \in 1..(k - 1) : l[h] # "o"
  IN trimLabel(SubSeq(l, j + 1, Len(l)))

RECURSIVE openItems(_)
openItems(ls) ==
  IF ls = << >> THEN << >>
  ELSE (IF openLine(Head(ls)) THEN <<labelOf(Head(ls))>> ELSE << >>) \o openItems(Tail(ls))

\* C36 (as claimed): the open items are exactly the lines made of a bullet, an
\* empty box, white space and a label, in document order with trimmed labels;
\* hasTodos is true iff the list is non-empty and nextTodo is its first
\* element, null iff the list is empty.
C36_OpenItems ==
  (doc.stage = "built") =>
     /\ doc.todos = openItems(linesOf(doc.content))
     /\ doc.hasTodos = (doc.todos # << >>)
     /\ doc.nextTodo = (IF doc.todos = << >> THEN NoTodo ELSE doc.todos[1])

\* C34: getNextSpecNumber returns 1 when the directory is missing or holds no
\* file with a numeric prefix, and otherwise the highest numeric prefix present
\* plus 1; createSpec writes the new spec under exactly that number, which is
\* greater than the number of every spec present at that moment.
C34_NextNumberIsMaxPlusOne ==
  [][(listing.stage = "dir" /\ listing'.stage = "created") =>
       LET numbered == {i \in 1..Len(listing.files) : listing.files[i].prefix # << >>}
           n == listing'.number
       IN /\ (~listing.exists \/ numbered = {}) => n = 1
          /\ (numbered # {}) =>
                /\ \E i \in numbered : digitsValue(listing.files[i].prefix) = n - 1
                /\ \A i \in numbered : digitsValue(listing.files[i].prefix) < n
          /\ digitsValue(listing'.created.prefix) = n
          /\ listing'.created.ext = "md"
          /\ listing'.files = Append(listing.files, listing'.created)
          /\ \A i \in 1..Len(listing.files) :
                fileName(listing.files[i]) # fileName(listing'.created)]_vars

\* a spec was created in a directory that holds a file numbered MaxNumber and
\* a file without a number
C34_Witness ==
  /\ listing.stage = "created"
  /\ listing.number = MaxNumber + 1
  /\ Len(listing.files) = 3
  /\ \E i \in 1..2 : listing.files[i].prefix = << >>

\* C35: in the state given to decide, specs is sorted by number ascending and
\* holds the numbered .md files of the directory, availableSpecs is the
\* sub-list of the specs whose content does not start with the claim marker,
\* hasAvailableSpecs tells whether it is non-empty, and nextSpec is an unclaimed
\* spec of the smallest number, null iff there is none; a WIP-marked spec is
\* never nextSpec.
C35_SnapshotSortedAndPartitioned ==
  (listing.stage = "built") =>
     LET specs == listing.specs
         avail == listing.availableSpecs
         unclaimed(f) == f.raw = << >> \/ f.raw[1] \notin {"M", "m"}
         Range(q) == {q[i] : i \in 1..Len(q)}
     IN /\ \A i \in 1..Len(specs), j \in 1..Len(specs) :
             i < j => digitsValue(specs[i].prefix) <= digitsValue(specs[j].prefix)
        /\ Range(specs) = {f \in Range(listing.files) : f.ext = "md" /\ f.prefix # << >>}
        /\ Cardinality(Range(specs)) = Len(specs)
        /\ Range(avail) = {f \in Range(specs) : unclaimed(f)}
        /\ Cardinality(Range(avail)) = Len(avail)
        /\ \A i \in 1..Len(avail), j \in 1..Len(avail) :
             i < j => \E h \in 1..Len(specs), k \in 1..Len(specs) :
                        h < k /\ specs[h] = avail[i] /\ specs[k] = avail[j]
        /\ listing.hasAvailableSpecs = (avail # << >>)
        /\ (listing.nextSpec = NoSpecFile) = (\A f \in Range(specs) : ~unclaimed(f))
        /\ (listing.nextSpec # NoSpecFile) =>
             /\ listing.nextSpec \in Range(specs)
             /\ unclaimed(listing.nextSpec)
             /\ \A f \in Range(specs) :
                  unclaimed(f) =>
                    digitsValue(listing.nextSpec.prefix) <= digitsValue(f.prefix)

\* readdir returned a higher-numbered unclaimed spec before a lower-numbered
\* one, which becomes nextSpec
C35_Witness ==
  /\ listing.stage = "built"
  /\ Len(listing.files) = 2
  /\ digitsValue(listing.files[1].prefix) > digitsValue(listing.files[2].prefix)
  /\ Len(listing.availableSpecs) = 2
  /\ listing.nextSpec = listing.files[2]

\* C33: when the working directory is not a git repository the loop's only
\* step is the exit with status 1: the task file or spec directory is not
\* created, no commit count is read, decide is not called and no agent runs.
C33_NotGitFailsFirst ==
  [][~isGitRepo =>
       /\ pc = "start"
       /\ pc' = "done"
       /\ exitCode' = 1
       /\ UNCHANGED <<storeExists, taskFile, specDir, git, startCommitCount, commits,
                      decideCalls, agentRuns, supRuns, running, iteration>>]_vars

\* the loop was started outside a repository, with no task store yet
C33_Witness ==
  /\ ~isGitRepo
  /\ pc = "done"
  /\ exitCode = 1
  /\ ~storeExists
  /\ decideCalls = 0
  /\ agentRuns = 0

\* C37: specLoop without --continuous ends an iteration with "all specs
\* implemented" iff the action was implement and the directory, read again,
\* holds no spec file at all; when only WIP-marked specs remain it goes on to
\* another iteration (unless --once ends the run).
C37_CompleteIffDirectoryEmpty ==
  [][(pc = "checkDone" /\ IsSpec /\ ~continuous) =>
       /\ (outcome' = "complete") <=>
            (action = "implement" /\ \A n \in 1..MaxSpecs : specDir[n] = "none")
       /\ (/\ \E n \in 1..MaxSpecs : specDir[n] = "wip"
           /\ \A n \in 1..MaxSpecs : specDir[n] # "plain"
           /\ ~once) => (pc' = "top" /\ outcome' = "running")]_vars

\* an implement action left only WIP-marked specs behind and the loop went on
\* to a second iteration
C37_Witness ==
  /\ IsSpec
  /\ ~continuous
  /\ pc = "dispatch"
  /\ iteration = 2
  /\ action = "implement"
  /\ agentRuns = 1
  /\ supRuns = 0
  /\ state.next = NoSpec
  /\ \E n \in 1..MaxSpecs : specDir[n] = "wip"

\* C38 (as claimed): a supervisor pass that ends with the commit count it
\* started with leaves a count at which the supervisor is not due, so that
\* the next pass consults decide.
C38_SupervisorYields ==
  [][(pc = "supEnsure" /\ pc' = "top" /\ commits' = commits) =>
       ~shouldRunSupervisor(supEvery, commits')]_vars

\* C39: an implement action of specLoop marks exactly the snapshot's nextSpec
\* and stages it before the agent starts; no other spec file changes, and
\* nothing is marked when nextSpec is null or the action is research; the
\* agent is started in every case (unless --dry-run ends the run).
C39_MarksOnlyNextSpec ==
  [][(pc = "dispatch" /\ IsSpec /\ action # "halt") =>
       /\ IF action = "implement" /\ state.next # NoSpec
          THEN /\ state.next = nextSpec(specDir)
               /\ specDir'[state.next] = "wip"
               /\ \A n \in 1..MaxSpecs : n # state.next => specDir'[n] = specDir[n]
               /\ git'.staged
          ELSE specDir' = specDir /\ git' = git
       /\ ~dryRun => (pc' = "agent" /\ running' = running + 1)]_vars

\* spec 1 was claimed and staged for the agent, spec 2 was left as it was
C39_Witness ==
  /\ IsSpec
  /\ pc = "agent"
  /\ action = "implement"
  /\ state.next = 1
  /\ specDir[1] = "wip"
  /\ specDir[2] = "plain"
  /\ git.staged
  /\ running = 1

\* C40 (as claimed): every spec the loop marks WIP for an implement action is
\* eventually deleted or unmarked.
C40_NoOrphanedClaim ==
  \A n \in 1..MaxSpecs :
     (pc = "agent" /\ IsSpec /\ action = "implement" /\ state.next = n /\ specDir[n] = "wip")
       ~> (specDir[n] # "wip")

====
